---- MODULE Spec2Model ----
(***************************************************************************)
(* A model of main.py: the composite-image generator.                      *)
(*                                                                         *)
(*   Spec          create_composite_image_with_gradient, stage by stage,  *)
(*                 with every file access drawing its outcome from the     *)
(*                 environment (readable or not, well-formed or not).      *)
(*   SpecGradient  draw_gradient, one loop iteration per step.             *)
(*   SpecHex       hex_to_rgb applied to strings with leading '#'s.        *)
(*   SpecTable     draw_table applied to anchors, widths and record sets.  *)
(*                                                                         *)
(* Strings the code indexes are sequences of one-character strings.  A     *)
(* Python dict is a function whose DOMAIN is its set of keys.  Pillow is   *)
(* taken to be a release that still has Image.ANTIALIAS (line 152).        *)
(***************************************************************************)
EXTENDS Integers, Sequences, FiniteSets, TLC

VARIABLES
    pc,                 \* position in create_composite_image_with_gradient
    log,                \* the stages executed so far, in order
    error,              \* the exception that ended the run, or "none"
    failedAt,           \* the stage that raised it, or "none"
    flowers,            \* the centres of the flowers drawn, in order
    logo_box,           \* [x, y, w, h] of the pasted logo, or NoBox
    element_positions,  \* the four placeholder positions (line 159)
    pasted,             \* the positions pasted so far, in order
    json_kind,          \* what the table-data path held: "unread" before
    printed,            \* the lines written to standard output
    table_data,         \* what load_json_file returned
    table_origin,       \* <<table_top_left_x, table_top_left_y>>
    cells,              \* the cells draw_table drew, in order
    out_file,           \* the output file: "absent" or "written"
    output_path,        \* the value returned, or "none"
    g,                  \* draw_gradient: its arguments, loop index, last line
    hex,                \* hex_to_rgb: its argument and its result
    tbl                 \* draw_table: its arguments and its result

vars == <<pc, log, error, failedAt, flowers, logo_box, element_positions, pasted,
          json_kind, printed, table_data, table_origin, cells, out_file,
          output_path, g, hex, tbl>>

pipeVars == <<pc, log, error, failedAt, flowers, logo_box, element_positions, pasted,
              json_kind, printed, table_data, table_origin, cells, out_file,
              output_path>>

-----------------------------------------------------------------------------
(* Bounds of the model.                                                    *)

MaxCols == 3
MaxRows == 2
MaxHeight == 8
MaxHashes == 2

-----------------------------------------------------------------------------
(* The layout constants of create_composite_image_with_gradient.           *)

width == 692
height == 982
margin == 35
\* flower_scale = 1.5, kept as the integer 2 * flower_scale
flower_scale_x2 == 3
logo_size == 180
placeholder_w == 300
placeholder_h == 168
col_widths == <<200, 350>>
row_height == 40
text_inset == 10

Min(a, b) == IF a < b THEN a ELSE b
Max(a, b) == IF a > b THEN a ELSE b
Abs(a) == IF a < 0 THEN -a ELSE a

RECURSIVE Sum(_)
Sum(s) == IF s = <<>> THEN 0 ELSE Head(s) + Sum(Tail(s))

\* s[:n]
Slice(s, n) == SubSeq(s, 1, Min(n, Len(s)))

RECURSIVE MaxOf(_)
MaxOf(s) == IF Len(s) = 1 THEN s[1] ELSE Max(s[1], MaxOf(Tail(s)))

\* int(30 * flower_scale)
outer_radius == (30 * flower_scale_x2) \div 2

\* margin * 2 + int(outer_radius * flower_scale)
top_space == margin * 2 + ((outer_radius * flower_scale_x2) \div 2)

SecondRowYNoHeight(top) == top + margin

SecondRowY(top) == top + placeholder_h + margin

ElementPositionsRowMajor ==
    << <<margin, top_space>>,
       <<width - margin - placeholder_w, top_space>>,
       <<margin, top_space + placeholder_h + margin>>,
       <<width - margin - placeholder_w, top_space + placeholder_h + margin>> >>

ElementPositions ==
    << <<margin, top_space>>,
       <<margin, SecondRowY(top_space)>>,
       <<width - margin - placeholder_w, top_space>>,
       <<width - margin - placeholder_w, SecondRowY(top_space)>> >>

LogoX == (width \div 2) - (logo_size \div 2)
LogoY == (margin + outer_radius) - (logo_size \div 2)

TableTopLeftX == (width - Sum(col_widths)) \div 2
TableTopLeftY(positions) ==
    MaxOf([k \in 1..Len(positions) |-> positions[k][2] + placeholder_h]) + margin

NoBox == [x |-> 0, y |-> 0, w |-> 0, h |-> 0]

-----------------------------------------------------------------------------
(* Image.thumbnail((180, 180)): never enlarges; otherwise the longer side   *)
(* becomes 180 and the shorter one is scaled by the same ratio.  Pillow    *)
(* releases differ in how they round the shorter side (truncation in the   *)
(* older ones, the nearer aspect ratio in the newer ones), so both         *)
(* roundings are possible outcomes.  Never below one pixel.                *)

Scaled(short, long) ==
    { Max(1, (short * logo_size) \div long),
      Max(1, (short * logo_size + long - 1) \div long) }

Thumbnail(ow, oh) ==
    IF ow <= logo_size /\ oh <= logo_size
    THEN { <<ow, oh>> }
    ELSE IF ow >= oh
         THEN { <<logo_size, sh>> : sh \in Scaled(oh, ow) }
         ELSE { <<sw, logo_size>> : sw \in Scaled(ow, oh) }

\* the logo sizes the environment offers
LogoDims == {1, 90, 180, 181, 360, 500}

-----------------------------------------------------------------------------
(* load_json_file.  A file is what the path holds: nothing ("missing"),    *)
(* something open() refuses ("unreadable"), text json.load rejects         *)
(* ("invalid"), or text json.load parses into doc ("ok").                  *)

EmptyDict == [k \in {} |-> <<>>]

MsgNotFound == "The file was not found."
MsgNotJson == "The file is not a valid JSON file."

load_json_file(file) ==
    CASE file.kind = "ok" ->
            [value |-> file.doc, out |-> <<>>, error |-> "none"]
      [] file.kind = "missing" ->
            [value |-> EmptyDict, out |-> <<MsgNotFound>>, error |-> "none"]
      [] file.kind = "invalid" ->
            [value |-> EmptyDict, out |-> <<MsgNotJson>>, error |-> "none"]
      [] OTHER ->
            [value |-> EmptyDict, out |-> <<>>, error |-> "PermissionError"]

Labels == <<"A", "B", "C", "D", "E">>
CellTexts == <<"1", "2", "3", "4", "5">>

RowsOfLen(n) == [1..n -> {Slice(CellTexts, k) : k \in 0..MaxCols}]
DataSets == UNION {RowsOfLen(n) : n \in 0..MaxRows}

\* the documents a well-formed file may hold: the record-set shape, and
\* objects that lack one key or both
Docs ==
    { [columns |-> Slice(Labels, n), data |-> d] :
          n \in 0..MaxCols, d \in DataSets }
    \cup { EmptyDict, [columns |-> Slice(Labels, 2)] }

JsonFiles ==
    { [kind |-> "ok", doc |-> d] : d \in Docs }
    \cup { [kind |-> k, doc |-> EmptyDict] :
              k \in {"missing", "invalid", "unreadable"} }

-----------------------------------------------------------------------------
(* draw_table.  The result is the cells drawn, in order, and the exception *)
(* that stopped the drawing ("none" when it ran to its end).               *)

HeaderFill == "#FFD700"
DataFill(col_idx) == IF col_idx % 2 = 0 THEN "#E6E6FA" ELSE "#98FB98"

\* sum(col_widths[:col_idx])
XOffset(top_left_x, widths, col_idx) == top_left_x + Sum(Slice(widths, col_idx))

\* one pass of "for col_idx, cell in enumerate(row)": col_widths[col_idx]
\* raises IndexError at the first cell that has no width
RowCells(kind, r, top_left_x, y_offset, row, widths, rh) ==
    LET n == Min(Len(row), Len(widths))
    IN  [cells |->
            [c \in 1..n |->
                LET col_idx == c - 1
                    x_offset == XOffset(top_left_x, widths, col_idx)
                IN  [kind |-> kind, row |-> r, col |-> col_idx,
                     x |-> x_offset, y |-> y_offset,
                     x2 |-> x_offset + widths[c], y2 |-> y_offset + rh,
                     fill |-> IF kind = "header" THEN HeaderFill
                              ELSE DataFill(col_idx),
                     text |-> row[c],
                     tx |-> x_offset + text_inset,
                     ty |-> y_offset + text_inset]],
         error |-> IF Len(row) > Len(widths) THEN "IndexError" ELSE "none"]

NextRowYStuck(y_offset, rh) == y_offset

NextRowY(y_offset, rh) == y_offset + rh

RECURSIVE DataRows(_, _, _, _, _, _)
DataRows(rows, r, top_left_x, y_offset, widths, rh) ==
    IF rows = <<>>
    THEN [cells |-> <<>>, error |-> "none"]
    ELSE LET first == RowCells("data", r, top_left_x, y_offset, Head(rows),
                               widths, rh)
         IN  IF first.error # "none"
             THEN first
             ELSE LET rest == DataRows(Tail(rows), r + 1, top_left_x,
                                       NextRowY(y_offset, rh), widths, rh)
                  IN  [cells |-> first.cells \o rest.cells,
                       error |-> rest.error]

draw_table(top_left_x, top_left_y, data, widths, rh, font_ok) ==
    IF ~font_ok
    THEN [cells |-> <<>>, error |-> "OSError"]
    ELSE IF "columns" \notin DOMAIN data
    THEN [cells |-> <<>>, error |-> "KeyError"]
    ELSE LET header == RowCells("header", 0, top_left_x, top_left_y,
                                data["columns"], widths, rh)
         IN  IF header.error # "none"
             THEN header
             ELSE IF "data" \notin DOMAIN data
             THEN [cells |-> header.cells, error |-> "KeyError"]
             ELSE LET body == DataRows(data["data"], 0, top_left_x,
                                       NextRowY(top_left_y, rh), widths, rh)
                  IN  [cells |-> header.cells \o body.cells,
                       error |-> body.error]

-----------------------------------------------------------------------------
(* hex_to_rgb.                                                             *)

HexChars == <<"0", "1", "2", "3", "4", "5", "6", "7", "8", "9",
              "a", "b", "c", "d", "e", "f">>
UpperHexChars == <<"A", "B", "C", "D", "E", "F">>

IsHexChar(ch) ==
    \/ \E k \in 1..Len(HexChars) : HexChars[k] = ch
    \/ \E k \in 1..Len(UpperHexChars) : UpperHexChars[k] = ch

HexCharValue(ch) ==
    IF \E k \in 1..Len(HexChars) : HexChars[k] = ch
    THEN (CHOOSE k \in 1..Len(HexChars) : HexChars[k] = ch) - 1
    ELSE (CHOOSE k \in 1..Len(UpperHexChars) : UpperHexChars[k] = ch) + 9

lstripOne(str) ==
    IF str # <<>> /\ Head(str) = "#" THEN Tail(str) ELSE str

\* hex_color.lstrip('#'): every leading '#' goes
RECURSIVE lstrip(_)
lstrip(str) ==
    IF str # <<>> /\ Head(str) = "#" THEN lstrip(Tail(str)) ELSE str

\* int(digits, 16) on a slice of hex digits; -1 stands for ValueError
RECURSIVE IntBase16(_, _)
IntBase16(digits, acc) ==
    IF digits = <<>> THEN acc
    ELSE IF ~IsHexChar(Head(digits)) THEN -1
    ELSE IntBase16(Tail(digits), 16 * acc + HexCharValue(Head(digits)))

\* hex_color[i:i+2], i counted from 0
Pair(str, i) == SubSeq(str, Min(i + 1, Len(str) + 1), Min(i + 2, Len(str)))

hex_to_rgb(hex_color) ==
    LET stripped == lstrip(hex_color)
        chan(i) == IF Pair(stripped, i) = <<>> THEN -1
                   ELSE IntBase16(Pair(stripped, i), 0)
    IN  IF chan(0) < 0 \/ chan(2) < 0 \/ chan(4) < 0
        THEN [value |-> <<>>, error |-> "ValueError"]
        ELSE [value |-> <<chan(0), chan(2), chan(4)>>, error |-> "none"]

-----------------------------------------------------------------------------
(* draw_gradient.  The code computes in IEEE doubles and truncates with    *)
(* int().  With blend = BlendNum / H the exact value of a channel is       *)
(* ExactNum / H.  When blend is a dyadic fraction every intermediate       *)
(* result is exact.  Otherwise the double result differs from the exact    *)
(* value by far less than 1 / H, so int() yields the floor of the exact    *)
(* value unless that value is an integer v, where the double may fall      *)
(* just short of v and int() then yields v - 1 (height 3, row 1, 1 -> 7    *)
(* gives 4, not 5).  Both outcomes are kept.  The sum of two non-negative  *)
(* products is never negative, so 0 is never undershot.                    *)

RECURSIVE GCD(_, _)
GCD(a, b) == IF b = 0 THEN a ELSE GCD(b, a % b)

RECURSIVE IsPowerOfTwo(_)
IsPowerOfTwo(n) == n = 1 \/ (n % 2 = 0 /\ IsPowerOfTwo(n \div 2))

BlendNumSingleRamp(i, H) == i

\* blend * H, for "2 * i / H if i <= H // 2 else 2 - 2 * i / H"
BlendNum(i, H) == IF i <= H \div 2 THEN 2 * i ELSE 2 * H - 2 * i

BlendIsDyadic(i, H) == IsPowerOfTwo(H \div GCD(BlendNum(i, H), H))

\* (top * (1 - blend) + bottom * blend) * H
ExactNum(top, bottom, i, H) ==
    top * (H - BlendNum(i, H)) + bottom * BlendNum(i, H)

\* round(n / H), halves to the even neighbour
RoundHalfEven(n, H) ==
    LET q == n \div H
        r == n % H
    IN  IF 2 * r < H THEN q
        ELSE IF 2 * r > H THEN q + 1
        ELSE IF q % 2 = 0 THEN q ELSE q + 1

ChannelRounded(top, bottom, i, H) ==
    { RoundHalfEven(ExactNum(top, bottom, i, H), H) }

\* int(top * (1 - blend) + bottom * blend)
ChannelOutcomes(top, bottom, i, H) ==
    LET n == ExactNum(top, bottom, i, H)
        v == n \div H
    IN  IF n % H = 0 /\ ~BlendIsDyadic(i, H) /\ v >= 1
        THEN {v - 1, v}
        ELSE {v}

RowColors(top, bottom, i, H) ==
    { <<r, gr, b>> : r \in ChannelOutcomes(top[1], bottom[1], i, H),
                     gr \in ChannelOutcomes(top[2], bottom[2], i, H),
                     b \in ChannelOutcomes(top[3], bottom[3], i, H) }

-----------------------------------------------------------------------------
(* create_composite_image_with_gradient, one action per stage.  A stage    *)
(* that raises ends the run: nothing catches it.                           *)

OutputPath == "path_out/gradient_flowers_composite_image.png"

AfterStageSaveEarly(stage) ==
    CASE stage = "gradient" -> "flower_left"
      [] stage = "flower_left" -> "flower_right"
      [] stage = "flower_right" -> "logo"
      [] stage = "logo" -> "placeholder"
      [] stage = "placeholder" -> "load"
      [] stage = "load" -> "save"
      [] stage = "save" -> "table"
      [] stage = "table" -> "return"
      [] OTHER -> "done"

\* the statement order of lines 141-185
AfterStage(stage) ==
    CASE stage = "gradient" -> "flower_left"
      [] stage = "flower_left" -> "flower_right"
      [] stage = "flower_right" -> "logo"
      [] stage = "logo" -> "placeholder"
      [] stage = "placeholder" -> "load"
      [] stage = "load" -> "table"
      [] stage = "table" -> "save"
      [] stage = "save" -> "return"
      [] OTHER -> "done"

Raise(stage, exc) ==
    /\ pc' = "failed"
    /\ error' = exc
    /\ failedAt' = stage

Advance(stage) ==
    /\ pc' = AfterStage(stage)
    /\ log' = Append(log, stage)
    /\ UNCHANGED <<error, failedAt>>

InitPipeline ==
    /\ pc = "gradient"
    /\ log = <<>>
    /\ error = "none"
    /\ failedAt = "none"
    /\ flowers = <<>>
    /\ logo_box = NoBox
    /\ element_positions = <<>>
    /\ pasted = <<>>
    /\ json_kind = "unread"
    /\ printed = <<>>
    /\ table_data = EmptyDict
    /\ table_origin = <<0, 0>>
    /\ cells = <<>>
    /\ out_file = "absent"
    /\ output_path = "none"

NoLine == [row |-> -1, color |-> <<0, 0, 0>>]
IdleGradient == [height |-> 0, top |-> <<0, 0, 0>>, bottom |-> <<0, 0, 0>>,
                 i |-> 0, line |-> NoLine]
NoResult == [value |-> <<>>, error |-> "unset"]
IdleHex == [arg |-> <<>>, result |-> NoResult, prefixed |-> NoResult,
            calls |-> 0]
IdleTable == [x |-> 0, y |-> 0, widths |-> <<>>, rh |-> 0, data |-> EmptyDict,
              called |-> FALSE, cells |-> <<>>, error |-> "none"]

Init ==
    /\ InitPipeline
    /\ g = IdleGradient
    /\ hex = IdleHex
    /\ tbl = IdleTable

\* lines 139-141
Gradient ==
    /\ UNCHANGED <<g, hex, tbl, flowers>>
    /\ pc = "gradient"
    /\ Advance("gradient")
    /\ UNCHANGED <<logo_box, element_positions, pasted, json_kind, printed,
                   table_data, table_origin, cells, out_file, output_path>>

\* lines 144-146
FlowerLeft ==
    /\ UNCHANGED <<g, hex, tbl>>
    /\ pc = "flower_left"
    /\ flowers' = Append(flowers, <<margin + outer_radius, margin + outer_radius>>)
    /\ Advance("flower_left")
    /\ UNCHANGED <<logo_box, element_positions, pasted, json_kind, printed,
                   table_data, table_origin, cells, out_file, output_path>>

\* line 147
FlowerRight ==
    /\ UNCHANGED <<g, hex, tbl>>
    /\ pc = "flower_right"
    /\ flowers' = Append(flowers, <<width - margin - outer_radius, margin + outer_radius>>)
    /\ Advance("flower_right")
    /\ UNCHANGED <<logo_box, element_positions, pasted, json_kind, printed,
                   table_data, table_origin, cells, out_file, output_path>>

\* lines 150-165: the logo, then the placeholder layout
Logo ==
    /\ UNCHANGED <<g, hex, tbl, flowers>>
    /\ pc = "logo"
    /\ \/ /\ Raise("logo", "FileNotFoundError")
          /\ UNCHANGED <<log, logo_box, element_positions>>
       \/ \E ow \in LogoDims, oh \in LogoDims :
            \E size \in Thumbnail(ow, oh) :
              /\ logo_box' = [x |-> LogoX, y |-> LogoY,
                              w |-> size[1], h |-> size[2]]
              /\ element_positions' = ElementPositions
              /\ Advance("logo")
    /\ UNCHANGED <<pasted, json_kind, printed, table_data, table_origin,
                   cells, out_file, output_path>>

\* lines 168-171: one iteration of the loop over zip(positions, paths)
Placeholder ==
    /\ UNCHANGED <<g, hex, tbl, flowers>>
    /\ pc = "placeholder"
    /\ LET k == Len(pasted) + 1
       IN  \/ /\ Raise("placeholder", "FileNotFoundError")
              /\ UNCHANGED <<log, pasted>>
           \/ /\ pasted' = Append(pasted, element_positions[k])
              /\ IF k = Len(element_positions)
                 THEN Advance("placeholder")
                 ELSE UNCHANGED <<pc, log, error, failedAt>>
    /\ UNCHANGED <<logo_box, element_positions, json_kind, printed,
                   table_data, table_origin, cells, out_file, output_path>>

\* lines 174-178
Load ==
    /\ UNCHANGED <<g, hex, tbl, flowers>>
    /\ pc = "load"
    /\ table_origin' = <<TableTopLeftX, TableTopLeftY(element_positions)>>
    /\ \E file \in JsonFiles :
         LET r == load_json_file(file)
         IN  /\ json_kind' = file.kind
             /\ printed' = printed \o r.out
             /\ IF r.error # "none"
                THEN /\ Raise("load", r.error)
                     /\ UNCHANGED <<log, table_data>>
                ELSE /\ table_data' = r.value
                     /\ Advance("load")
    /\ UNCHANGED <<logo_box, element_positions, pasted, cells, out_file,
                   output_path>>

\* line 179
Table ==
    /\ UNCHANGED <<g, hex, tbl, flowers>>
    /\ pc = "table"
    /\ \E font_ok \in BOOLEAN :
         LET r == draw_table(table_origin[1], table_origin[2], table_data,
                             col_widths, row_height, font_ok)
         IN  /\ cells' = r.cells
             /\ IF r.error # "none"
                THEN /\ Raise("table", r.error)
                     /\ UNCHANGED log
                ELSE Advance("table")
    /\ UNCHANGED <<logo_box, element_positions, pasted, json_kind, printed,
                   table_data, table_origin, out_file, output_path>>

\* lines 182-183: Image.save opens the file for writing, then encodes into it
Save ==
    /\ UNCHANGED <<g, hex, tbl, flowers>>
    /\ pc = "save"
    /\ \/ /\ Raise("save", "PermissionError")
          /\ UNCHANGED <<log, out_file>>
       \/ /\ out_file' = "written"
          /\ Advance("save")
    /\ UNCHANGED <<logo_box, element_positions, pasted, json_kind, printed,
                   table_data, table_origin, cells, output_path>>

\* line 185, and main's print of the path (line 204)
Return ==
    /\ UNCHANGED <<g, hex, tbl, flowers>>
    /\ pc = "return"
    /\ output_path' = OutputPath
    /\ printed' = Append(printed, "The image has been saved to: path")
    /\ Advance("return")
    /\ UNCHANGED <<logo_box, element_positions, pasted, json_kind,
                   table_data, table_origin, cells, out_file>>

Next ==
    \/ Gradient
    \/ FlowerLeft
    \/ FlowerRight
    \/ Logo
    \/ Placeholder
    \/ Load
    \/ Table
    \/ Save
    \/ Return

Spec == Init /\ [][Next]_vars

-----------------------------------------------------------------------------
(* draw_gradient on its own: every height up to MaxHeight and the canvas   *)
(* height, every pair of the sample colours.                               *)

IdlePipeline ==
    /\ pc = "idle"
    /\ log = <<>>
    /\ error = "none"
    /\ failedAt = "none"
    /\ flowers = <<>>
    /\ logo_box = NoBox
    /\ element_positions = <<>>
    /\ pasted = <<>>
    /\ json_kind = "unread"
    /\ printed = <<>>
    /\ table_data = EmptyDict
    /\ table_origin = <<0, 0>>
    /\ cells = <<>>
    /\ out_file = "absent"
    /\ output_path = "none"

Blue == hex_to_rgb(<<"a", "c", "c", "b", "f", "2">>).value
Orange == hex_to_rgb(<<"f", "d", "9", "9", "6", "5">>).value

Heights == (1..MaxHeight) \cup {height}
Colors == {Blue, Orange, <<0, 0, 0>>, <<255, 255, 255>>, <<1, 7, 13>>,
           <<254, 3, 128>>}

InitGradient ==
    /\ IdlePipeline
    /\ hex = IdleHex
    /\ tbl = IdleTable
    /\ \E H \in Heights, top \in Colors, bottom \in Colors :
         g = [height |-> H, top |-> top, bottom |-> bottom, i |-> 0,
              line |-> NoLine]

\* lines 31-36: one iteration of "for i in range(height)"
GradientRow ==
    /\ g.i < g.height
    /\ \E color \in RowColors(g.top, g.bottom, g.i, g.height) :
         g' = [g EXCEPT !.i = g.i + 1,
                        !.line = [row |-> g.i, color |-> color]]
    /\ UNCHANGED <<hex, tbl>>
    /\ UNCHANGED pipeVars

NextGradient == GradientRow

SpecGradient == InitGradient /\ [][NextGradient]_vars

-----------------------------------------------------------------------------
(* hex_to_rgb on its own: a six-digit string behind zero to MaxHashes      *)
(* '#'s, converted as given and again with one more '#' in front.          *)

HexPairs == { <<"a", "c">>, <<"c", "b">>, <<"f", "2">>, <<"f", "d">>,
              <<"9", "9">>, <<"6", "5">>, <<"0", "0">>, <<"F", "F">>,
              <<"0", "A">> }

RECURSIVE Hashes(_)
Hashes(n) == IF n = 0 THEN <<>> ELSE <<"#">> \o Hashes(n - 1)

InitHex ==
    /\ IdlePipeline
    /\ g = IdleGradient
    /\ tbl = IdleTable
    /\ \E n \in 0..MaxHashes, p1 \in HexPairs, p2 \in HexPairs, p3 \in HexPairs :
         hex = [arg |-> Hashes(n) \o p1 \o p2 \o p3, result |-> NoResult,
                prefixed |-> NoResult, calls |-> 0]

HexCall ==
    /\ hex.calls = 0
    /\ hex' = [hex EXCEPT !.result = hex_to_rgb(hex.arg), !.calls = 1]
    /\ UNCHANGED <<g, tbl>>
    /\ UNCHANGED pipeVars

HexCallPrefixed ==
    /\ hex.calls = 1
    /\ hex' = [hex EXCEPT !.prefixed = hex_to_rgb(<<"#">> \o hex.arg),
                          !.calls = 2]
    /\ UNCHANGED <<g, tbl>>
    /\ UNCHANGED pipeVars

NextHex == HexCall \/ HexCallPrefixed

SpecHex == InitHex /\ [][NextHex]_vars

-----------------------------------------------------------------------------
(* draw_table on its own.                                                  *)

Anchors == {0, 71}
WidthLists == { <<200, 350>>, <<50>>, <<10, 20, 30>> }
RowHeights == {1, 40}

InitTable ==
    /\ IdlePipeline
    /\ g = IdleGradient
    /\ hex = IdleHex
    /\ \E x \in Anchors, y \in Anchors, w \in WidthLists, rh \in RowHeights,
          d \in Docs :
         tbl = [x |-> x, y |-> y, widths |-> w, rh |-> rh, data |-> d,
                called |-> FALSE, cells |-> <<>>, error |-> "none"]

TableCall ==
    /\ ~tbl.called
    /\ \E font_ok \in BOOLEAN :
         LET r == draw_table(tbl.x, tbl.y, tbl.data, tbl.widths, tbl.rh,
                             font_ok)
         IN  tbl' = [tbl EXCEPT !.called = TRUE, !.cells = r.cells,
                                !.error = r.error]
    /\ UNCHANGED <<g, hex>>
    /\ UNCHANGED pipeVars

NextTable == TableCall

SpecTable == InitTable /\ [][NextTable]_vars

-----------------------------------------------------------------------------
(* Properties of the pipeline (Spec).                                      *)

Ran(stage) == \E k \in 1..Len(log) : log[k] = stage

StageOrder == <<"gradient", "flower_left", "flower_right", "logo",
                "placeholder", "load", "table", "save", "return">>

\* C1: when the table-data file is missing or is not valid JSON, and every
\* other input is valid, the run does not fail: the condition is reported,
\* no cell is drawn, the canvas is saved and the path is returned.
C1_MissingJsonRunCompletes ==
    (/\ json_kind \in {"missing", "invalid"}
     /\ pc \in {"done", "failed"}
     /\ ~(failedAt = "table" /\ error = "OSError")
     /\ failedAt # "save")
    => /\ pc = "done"
       /\ printed # <<>>
       /\ cells = <<>>
       /\ out_file = "written"
       /\ output_path = OutputPath

\* C2: load_json_file on a missing or malformed file does not raise and
\* returns columns = [] and data = []; on a well-formed file it returns the
\* parsed columns and data unchanged.
C2_LoaderYieldsRecordSet ==
    Ran("load") =>
        IF json_kind \in {"missing", "invalid"}
        THEN /\ DOMAIN table_data = {"columns", "data"}
             /\ table_data["columns"] = <<>>
             /\ table_data["data"] = <<>>
        ELSE table_data \in Docs

\* C5 as stated: every failure occurs strictly before the save step.
C5_EveryFailureBeforeSave ==
    pc = "failed" => failedAt # "save"

\* C5, amended: a failed run leaves no output file; a failure of any stage
\* but the save occurs before the save is attempted; the only failure of
\* the save step is the refused opening of the output file, which writes
\* nothing; and the save runs only after all seven earlier stages.
C5_NoPartialOutput ==
    /\ pc = "failed" => out_file = "absent"
    /\ (pc = "failed" /\ failedAt # "save") => ~Ran("save")
    /\ failedAt = "save" => (error = "PermissionError" /\ Ran("table"))
    /\ (Ran("save") \/ out_file = "written" \/ failedAt = "save")
           => (Len(log) >= 7 /\ SubSeq(log, 1, 7) = SubSeq(StageOrder, 1, 7))

C5_Witness ==
    /\ pc = "failed"
    /\ failedAt = "save"
    /\ Len(log) = 7

\* C6: the pasted logo is horizontally centred, whatever its size after the
\* downscaling: its horizontal midpoint is the canvas's.
C6_LogoCentred ==
    Ran("logo") => 2 * logo_box.x + logo_box.w = width

Disjoint(p, q) ==
    \/ p[1] + placeholder_w <= q[1]
    \/ q[1] + placeholder_w <= p[1]
    \/ p[2] + placeholder_h <= q[2]
    \/ q[2] + placeholder_h <= p[2]

InsideCanvas(p) ==
    /\ 0 <= p[1]
    /\ p[1] + placeholder_w <= width
    /\ 0 <= p[2]
    /\ p[2] + placeholder_h <= height

\* C8: the four placeholder slots are pairwise disjoint and inside the
\* canvas, and the table's top edge is margin below the lowest slot.
C8_SlotsDisjoint ==
    /\ Ran("logo") =>
          /\ Len(element_positions) = 4
          /\ \A k \in 1..4 : InsideCanvas(element_positions[k])
          /\ \A j \in 1..4, k \in 1..4 :
                j # k => Disjoint(element_positions[j], element_positions[k])
    /\ Ran("load") =>
          /\ \A k \in 1..4 :
                table_origin[2] >= element_positions[k][2] + placeholder_h + margin
          /\ \E k \in 1..4 :
                table_origin[2] = element_positions[k][2] + placeholder_h + margin

C8_Witness ==
    /\ Ran("load")
    /\ Len(pasted) = 4
    /\ table_origin = <<71, 543>>

\* C9: the stages run in one fixed order: the log is always a prefix of
\* gradient, left flower, right flower, logo, placeholders, load, table,
\* save, return; the placeholders are pasted left-top, left-bottom,
\* right-top, right-bottom; a run that ends normally has run them all.
C9_FixedStageOrder ==
    /\ Len(log) <= Len(StageOrder)
    /\ log = SubSeq(StageOrder, 1, Len(log))
    /\ Len(flowers) <= 2
    /\ Ran("flower_left") => flowers[1] = <<80, 80>>
    /\ Ran("flower_right") => flowers = << <<80, 80>>, <<612, 80>> >>
    /\ Len(pasted) <= 4
    /\ Ran("placeholder") => Len(pasted) = 4
    /\ Len(pasted) >= 1 => pasted[1] = <<35, 137>>
    /\ Len(pasted) >= 2 => pasted[2] = <<35, 340>>
    /\ Len(pasted) >= 3 => pasted[3] = <<357, 137>>
    /\ Len(pasted) >= 4 => pasted[4] = <<357, 340>>
    /\ pc = "done" => (log = StageOrder /\ output_path = OutputPath)
    /\ pc \in {"done", "return"} <=> out_file = "written"

C9_Witness ==
    /\ pc = "done"
    /\ Len(cells) = 6

-----------------------------------------------------------------------------
(* Properties of draw_gradient (SpecGradient).                             *)

CeilDiv(a, b) == (a + b - 1) \div b

Near(c, t, tol) == \A j \in 1..3 : Abs(c[j] - t[j]) <= tol

\* blend * H as the claim words it: 2i / H when i <= H / 2, else 2 - 2i / H
ClaimBlendNum(i, H) == IF 2 * i <= H THEN 2 * i ELSE 2 * H - 2 * i

ClaimNum(top, bottom, i, H) ==
    top * (H - ClaimBlendNum(i, H)) + bottom * ClaimBlendNum(i, H)

ClaimBlendInexact(i, H) == ~IsPowerOfTwo(H \div GCD(ClaimBlendNum(i, H), H))

\* Channel j of the last line is the value a double falling short of an
\* integer leaves.  The model does not decide at which inputs the double
\* arithmetic falls short, so such a state is never held against a claim.
Undershot(j) ==
    LET n == ClaimNum(g.top[j], g.bottom[j], g.line.row, g.height)
    IN  /\ n % g.height = 0
        /\ ClaimBlendInexact(g.line.row, g.height)
        /\ g.line.color[j] = (n \div g.height) - 1

\* C3 as stated: for every H > 0, rows 0 and H-1 carry the top colour
\* within rounding, and row H // 2 carries the bottom colour.
C3_EdgesTopMiddleBottom ==
    (g.line.row >= 0 /\ \A j \in 1..3 : ~Undershot(j)) =>
        /\ g.line.row \in {0, g.height - 1} => Near(g.line.color, g.top, 1)
        /\ g.line.row = g.height \div 2 => g.line.color = g.bottom

\* C3, amended: row 0 carries exactly the top colour; row H / 2 carries
\* exactly the bottom colour when H is even; row H-1, for H >= 3, has
\* blend 2 / H, so each channel is within ceil(2 * |bottom - top| / H) + 1
\* of the top channel, and within 1 as soon as H > 2 * |bottom - top|.
C3_GradientEdges ==
    LET H == g.height
        c == g.line.color
    IN  g.line.row >= 0 =>
          /\ g.line.row = 0 => c = g.top
          /\ (H % 2 = 0 /\ g.line.row = H \div 2) => c = g.bottom
          /\ (H >= 3 /\ g.line.row = H - 1) =>
                \A j \in 1..3 :
                   LET d == Abs(g.bottom[j] - g.top[j])
                   IN  /\ Abs(c[j] - g.top[j]) <= CeilDiv(2 * d, H) + 1
                       /\ H > 2 * d => Abs(c[j] - g.top[j]) <= 1

C3_Witness ==
    /\ g.height = height
    /\ g.top = <<172, 203, 242>>
    /\ g.bottom = <<253, 153, 101>>
    /\ g.line.row = height - 1
    /\ g.line.color # g.top

\* C4 as stated: every channel written is round(top * (1 - blend) +
\* bottom * blend), blend is in [0, 1] and the channel in [0, 255].  A tie
\* computed from a blend that no double holds may round either way.
C4_ChannelIsRounded ==
    g.line.row >= 0 =>
        /\ 0 <= ClaimBlendNum(g.line.row, g.height)
        /\ ClaimBlendNum(g.line.row, g.height) <= g.height
        /\ \A j \in 1..3 :
              LET n == ClaimNum(g.top[j], g.bottom[j], g.line.row, g.height)
                  c == g.line.color[j]
              IN  /\ c \in 0..255
                  /\ \/ c = RoundHalfEven(n, g.height)
                     \/ /\ 2 * (n % g.height) = g.height
                        /\ ClaimBlendInexact(g.line.row, g.height)
                        /\ c \in {n \div g.height, n \div g.height + 1}
                     \/ Undershot(j)

\* C4, amended: every channel written is int(top * (1 - blend) + bottom *
\* blend), the value truncated and not rounded: the floor of the exact
\* value, or one less where the exact value is a positive integer and
\* blend is not a dyadic fraction; blend is in [0, 1], the channel in
\* [0, 255].
C4_ChannelIsTruncated ==
    g.line.row >= 0 =>
        /\ 0 <= ClaimBlendNum(g.line.row, g.height)
        /\ ClaimBlendNum(g.line.row, g.height) <= g.height
        /\ \A j \in 1..3 :
              LET n == ClaimNum(g.top[j], g.bottom[j], g.line.row, g.height)
                  c == g.line.color[j]
              IN  /\ c \in 0..255
                  /\ c * g.height <= n
                  /\ n <= c * g.height + g.height
                  /\ n = c * g.height + g.height =>
                        ClaimBlendInexact(g.line.row, g.height)

C4_Witness ==
    /\ g.height = 4
    /\ g.top = <<0, 0, 0>>
    /\ g.bottom = <<1, 7, 13>>
    /\ g.line.row = 3
    /\ g.line.color = <<0, 3, 6>>

-----------------------------------------------------------------------------
(* Properties of draw_table (SpecTable).                                   *)

RECURSIVE WidthsBefore(_, _)
WidthsBefore(widths, col) ==
    IF col = 0 THEN 0 ELSE WidthsBefore(widths, col - 1) + widths[col]

Drawn(kind, r, col, text) ==
    \E k \in 1..Len(tbl.cells) :
        /\ tbl.cells[k].kind = kind
        /\ tbl.cells[k].row = r
        /\ tbl.cells[k].col = col
        /\ tbl.cells[k].text = text

\* C7: column c's cells start at anchor_x plus the widths of columns
\* 0..c-1 (anchor_x + 200 for the second column of [200, 350]); the header
\* is drawn at anchor_y and data row r at anchor_y + (r + 1) * row_height;
\* a call that runs to its end has drawn every header and every data cell.
C7_TableLayout ==
    tbl.called =>
        /\ \A k \in 1..Len(tbl.cells) :
              LET c == tbl.cells[k]
              IN  /\ c.x = tbl.x + WidthsBefore(tbl.widths, c.col)
                  /\ (tbl.widths = <<200, 350>> /\ c.col = 1)
                        => c.x = tbl.x + 200
                  /\ c.kind = "header" => c.y = tbl.y
                  /\ c.kind = "data" => c.y = tbl.y + (c.row + 1) * tbl.rh
        /\ tbl.error = "none" =>
              /\ \A c \in 1..Len(tbl.data["columns"]) :
                    Drawn("header", 0, c - 1, tbl.data["columns"][c])
              /\ \A r \in 1..Len(tbl.data["data"]) :
                    \A c \in 1..Len(tbl.data["data"][r]) :
                       Drawn("data", r - 1, c - 1, tbl.data["data"][r][c])

C7_Witness ==
    /\ tbl.called
    /\ tbl.error = "none"
    /\ tbl.x = 71
    /\ tbl.widths = <<200, 350>>
    /\ tbl.rh = 40
    /\ \E k \in 1..Len(tbl.cells) :
          /\ tbl.cells[k].kind = "data"
          /\ tbl.cells[k].row = 1
          /\ tbl.cells[k].col = 1
          /\ tbl.cells[k].x = 271
          /\ tbl.cells[k].y = tbl.y + 80

-----------------------------------------------------------------------------
(* Properties of hex_to_rgb (SpecHex).                                     *)

ExpectedValue(pair) ==
    CASE pair = <<"a", "c">> -> 172
      [] pair = <<"c", "b">> -> 203
      [] pair = <<"f", "2">> -> 242
      [] pair = <<"f", "d">> -> 253
      [] pair = <<"9", "9">> -> 153
      [] pair = <<"6", "5">> -> 101
      [] pair = <<"0", "0">> -> 0
      [] pair = <<"F", "F">> -> 255
      [] pair = <<"0", "A">> -> 10

\* the six digits of the argument, behind its '#'s
Digits(arg) == SubSeq(arg, Len(arg) - 5, Len(arg))

\* C10: hex_to_rgb gives the same colour with and without a leading '#',
\* each channel is the value of its two hex digits, in 0..255, and
\* "accbf2" is (172, 203, 242).
C10_HexPrefixIdempotent ==
    /\ hex.calls >= 1 =>
          /\ hex.result.error = "none"
          /\ \A k \in 1..3 :
                /\ hex.result.value[k] \in 0..255
                /\ hex.result.value[k] =
                      ExpectedValue(SubSeq(Digits(hex.arg), 2 * k - 1, 2 * k))
          /\ Digits(hex.arg) = <<"a", "c", "c", "b", "f", "2">>
                => hex.result.value = <<172, 203, 242>>
    /\ hex.calls = 2 => hex.prefixed = hex.result

C10_Witness ==
    /\ hex.calls = 2
    /\ hex.arg = <<"a", "c", "c", "b", "f", "2">>
    /\ hex.prefixed.value = <<172, 203, 242>>

====
